---------------------------- MODULE Spec2Model ----------------------------
(***************************************************************************)
(* Model of the flight-itinerary ranking service:                          *)
(*   service/main.py              get_predict, inference                   *)
(*   service/src/preprocessing.py RequestTransformer.transform             *)
(*                                                                         *)
(* Numbers.  Timestamps are whole hours on one wall clock per zone; a      *)
(* pandas float is a record [k, n, d]: k = "num" is the rational n/d in    *)
(* lowest terms with d > 0, k = "nan" is NaN, k = "inf" / "ninf" are the   *)
(* IEEE infinities that numpy's float division by zero produces.           *)
(* Floating-point rounding is not modelled.                                *)
(***************************************************************************)
EXTENDS Integers, Sequences, FiniteSets, TLC

VARIABLES
    pc,                \* "received": request pending; "responded": handler returned
    request,           \* the Dict posted to /predict_batch, in key order
    model_one_way,     \* the one-way model, on the feature rows it is asked about
    model_two_way,     \* the round-trip model, likewise
    tranformed_batch,  \* data_transformer.transform(batch), main.py:68
    calls,             \* the predict_proba invocations inference made
    response           \* what get_predict returned

vars == <<pc, request, model_one_way, model_two_way, tranformed_batch, calls, response>>

-----------------------------------------------------------------------------
(* Bounds of the model *)

\* longest batch of the ranking specification
MaxRows == 3

\* longest batch of the per-row feature specification
MaxShapeRows == 2

\* longest batch of the per-group feature specification
MaxGroupRows == 3

-----------------------------------------------------------------------------
(* Floats, timestamps, missing values *)

None == "<None>"

NaN == [k |-> "nan", n |-> 0, d |-> 1]

PosInf == [k |-> "inf", n |-> 0, d |-> 1]

NegInf == [k |-> "ninf", n |-> 0, d |-> 1]

Num(i) == [k |-> "num", n |-> i, d |-> 1]

\* pd.isna on a float
IsNa(v) == v.k = "nan"

IsNum(v) == v.k = "num"

Abs(i) == IF i < 0 THEN -i ELSE i

RECURSIVE Gcd(_, _)
Gcd(a, b) == IF b = 0 THEN a ELSE Gcd(b, a % b)

\* numpy float division a / b of two finite numbers given as integers
FloatDiv(a, b) ==
    IF b = 0
    THEN IF a = 0 THEN NaN ELSE IF a > 0 THEN PosInf ELSE NegInf
    ELSE LET g == Gcd(Abs(a), Abs(b))
             s == IF b < 0 THEN -1 ELSE 1
         IN  [k |-> "num", n |-> (s * a) \div g, d |-> (s * b) \div g]

\* a slip: the sum taken with fill_value=0, a missing term counting as zero
FloatAddFillZero(x, y) ==
    IF IsNum(x) /\ IsNum(y) THEN Num(x.n + y.n)
    ELSE IF IsNum(x) THEN x ELSE IF IsNum(y) THEN y ELSE NaN

\* float addition of two columns holding whole numbers or NaN
FloatAdd(x, y) == IF IsNum(x) /\ IsNum(y) THEN Num(x.n + y.n) ELSE NaN

NaT == [nat |-> TRUE, h |-> 0]

TS(h) == [nat |-> FALSE, h |-> h]

\* pd.to_datetime of a JSON value: null (<<>>) is NaT, a date string <<h>> is hour h
to_datetime(v) == IF v = <<>> THEN NaT ELSE TS(v[1])

\* (a - b) / np.timedelta64(1, "h")
HoursBetween(a, b) == IF a.nat \/ b.nat THEN NaN ELSE Num(a.h - b.h)

\* Series.fillna(value) on one JSON value
fillna(v, default) == IF v = <<>> THEN default ELSE v[1]

-----------------------------------------------------------------------------
(* Reference data and the helpers of src/utils.py, which transform imports *)

\* air_data: IATA code -> airport record (the reference table, loaded once)
air_data ==
    [code \in {"SVO", "CDG", "JFK"} |->
        CASE code = "SVO" -> [tz |-> "Europe/Moscow", country |-> "RU"]
          [] code = "CDG" -> [tz |-> "Europe/Paris", country |-> "FR"]
          [] code = "JFK" -> [tz |-> "America/New_York", country |-> "US"]]

\* hours east of UTC of a zone (standard time)
UtcOffset(tz) ==
    CASE tz = "Europe/Moscow" -> 3
      [] tz = "Europe/Paris" -> 1
      [] tz = "America/New_York" -> -5

\* extract_airports(route): a route is its legs, outbound first; the codes of a
\* leg the route does not have are the empty string
extract_airports(route) ==
    <<route[1][1], route[1][2],
      IF Len(route) >= 2 THEN route[2][1] ELSE "",
      IF Len(route) >= 2 THEN route[2][2] ELSE "">>

\* get_airport_info(code, airport_data): <<timezone, country>>, <<None, None>>
\* for a code the table does not hold (the empty code included)
get_airport_info(code, airport_data) ==
    IF code \in DOMAIN airport_data
    THEN <<airport_data[code].tz, airport_data[code].country>>
    ELSE <<None, None>>

\* convert_time_zones(ts, from_tz, to_tz): ts read as wall-clock time in from_tz,
\* the same instant as wall-clock time in to_tz; missing when ts or a zone is
convert_time_zones(ts, from_tz, to_tz) ==
    IF ts.nat \/ from_tz = None \/ to_tz = None
    THEN NaT
    ELSE TS(ts.h - UtcOffset(from_tz) + UtcOffset(to_tz))

-----------------------------------------------------------------------------
(* RequestTransformer.transform, step by step; a DataFrame is               *)
(* [index |-> <<keys>>, data |-> <<rows>>], a row a record of its columns   *)

\* lines 50-69: convert data types, fill missing values; RequestID is posted
\* as a string, which astype(str) at line 51 leaves as it is
ConvertTypes(r) ==
    [RequestDate |-> to_datetime(r.RequestDate),
     RequestDepartureDate |-> to_datetime(r.RequestDepartureDate),
     RequestReturnDate |-> to_datetime(r.RequestReturnDate),
     DepartureDate |-> to_datetime(r.DepartureDate),
     ArrivalDate |-> to_datetime(r.ArrivalDate),
     ReturnDepatrureDate |-> to_datetime(r.ReturnDepatrureDate),
     ReturnArrivalDate |-> to_datetime(r.ReturnArrivalDate),
     IsBaggage |-> fillna(r.IsBaggage, 0),
     isRefundPermitted |-> fillna(r.isRefundPermitted, 0),
     isExchangePermitted |-> fillna(r.isExchangePermitted, 0),
     TravellerGrade |-> fillna(r.TravellerGrade, "Unknown")] @@ r

\* lines 71-114: the four IATA codes of SearchRoute, then timezone and country of each
ResolveAirports(r) ==
    LET a == extract_airports(r.SearchRoute)
    IN  r @@
        [dep_forw |-> a[1], arr_forw |-> a[2], dep_back |-> a[3], arr_back |-> a[4],
         dep_forw_tz |-> get_airport_info(a[1], air_data)[1],
         dep_forw_country |-> get_airport_info(a[1], air_data)[2],
         arr_forw_tz |-> get_airport_info(a[2], air_data)[1],
         arr_forw_country |-> get_airport_info(a[2], air_data)[2],
         dep_back_tz |-> get_airport_info(a[3], air_data)[1],
         dep_back_country |-> get_airport_info(a[3], air_data)[2],
         arr_back_tz |-> get_airport_info(a[4], air_data)[1],
         arr_back_country |-> get_airport_info(a[4], air_data)[2]]

\* lines 116-122: departure time in the timezone of arrival
DepartureDate_conv(r) ==
    convert_time_zones(r.DepartureDate, r.dep_forw_tz, r.arr_forw_tz)

\* a slip: the return leg taken to be the outbound leg flown back, whether or
\* not the route has one
ReturnDepatrureDate_conv_outbound(r) ==
    convert_time_zones(r.ReturnDepatrureDate, r.arr_forw_tz, r.dep_forw_tz)

\* lines 124-132: return departure time in the timezone of return arrival, NaT
\* for a row without a return departure airport
ReturnDepatrureDate_conv(r) ==
    IF r.dep_back # ""
    THEN convert_time_zones(r.ReturnDepatrureDate, r.dep_back_tz, r.arr_back_tz)
    ELSE NaT

\* lines 116-145: converted times, travel hours ahead, back and in total
ElapsedHours(r) ==
    LET dc == DepartureDate_conv(r)
        rc == ReturnDepatrureDate_conv(r)
        forw == HoursBetween(r.ArrivalDate, dc)
        back == HoursBetween(r.ReturnArrivalDate, rc)
    IN  r @@
        [DepartureDate_conv |-> dc, ReturnDepatrureDate_conv |-> rc,
         forw_hours |-> forw, back_hours |-> back,
         total_hours |-> FloatAdd(forw, back)]

\* a slip: the groupby left out, statistics taken over the whole frame
GroupOfWholeFrame(rows, i) == 1..Len(rows)

\* X_.groupby(["RequestID"]): the positions of the rows of row i's group
GroupOf(rows, i) == {j \in 1..Len(rows) : rows[j].RequestID = rows[i].RequestID}

\* the numbers a float column holds at the positions G (NaN skipped)
Values(col, G) == {col[j].n : j \in {g \in G : IsNum(col[g])}}

SetMin(S) == CHOOSE m \in S : \A y \in S : m <= y

RECURSIVE SetSum(_, _, _)
SetSum(col, G, j) ==
    IF j = 0 THEN 0
    ELSE SetSum(col, G, j - 1) + (IF j \in G /\ IsNum(col[j]) THEN col[j].n ELSE 0)

\* groupby.transform(lambda x: (x - x.min()) / x) at row i
diff_min(col, G, i) ==
    IF ~IsNum(col[i]) THEN NaN
    ELSE FloatDiv(col[i].n - SetMin(Values(col, G)), col[i].n)

\* groupby.transform(lambda x: (x - x.mean()) / x) at row i; the mean is
\* sum / count, so (x - mean) / x = (x * count - sum) / (count * x)
diff_mean(col, G, i) ==
    IF ~IsNum(col[i]) THEN NaN
    ELSE LET cnt == Cardinality({g \in G : IsNum(col[g])})
         IN  FloatDiv(col[i].n * cnt - SetSum(col, G, Len(col)), cnt * col[i].n)

\* a slip: back_hours >= 0 for back_hours > 0
is_direct_nonnegative(SegmentCount, back_hours) ==
    IF (SegmentCount = 1 /\ IsNa(back_hours))
       \/ (SegmentCount = 2 /\ IsNum(back_hours) /\ back_hours.n >= 0)
    THEN 1 ELSE 0

\* lines 189-198: direct flight for ahead-only or ahead-and-back request
is_direct(SegmentCount, back_hours) ==
    IF (SegmentCount = 1 /\ IsNa(back_hours))
       \/ (SegmentCount = 2 /\ IsNum(back_hours) /\ back_hours.n > 0)
    THEN 1 ELSE 0

\* lines 147-198: the per-group columns, the request offsets and is_direct of row i
GroupFeatures(rows, i) ==
    LET r == rows[i]
        G == GroupOf(rows, i)
        forw == [j \in 1..Len(rows) |-> rows[j].forw_hours]
        back == [j \in 1..Len(rows) |-> rows[j].back_hours]
        amount == [j \in 1..Len(rows) |-> Num(rows[j].Amount)]
    IN  r @@
        [forw_hours_diff_min |-> diff_min(forw, G, i),
         forw_hours_diff_mean |-> diff_mean(forw, G, i),
         back_hours_diff_min |-> diff_min(back, G, i),
         back_hours_diff_mean |-> diff_mean(back, G, i),
         req_dep_hours_diff |-> HoursBetween(r.DepartureDate, r.RequestDepartureDate),
         req_ret_hours_diff |-> HoursBetween(r.ReturnDepatrureDate, r.RequestReturnDate),
         price_diff_min_perc |-> diff_min(amount, G, i),
         price_diff_mean_perc |-> diff_mean(amount, G, i),
         is_direct |-> is_direct(r.SegmentCount, r.back_hours)]

\* lines 50-145, the columns of one row that need no other row
PerRow(r) == ElapsedHours(ResolveAirports(ConvertTypes(r)))

RECURSIVE PerRowAll(_, _)
PerRowAll(data, n) ==
    IF n = 0 THEN <<>> ELSE Append(PerRowAll(data, n - 1), PerRow(data[n]))

RECURSIVE GroupFeaturesAll(_, _)
GroupFeaturesAll(rows, n) ==
    IF n = 0 THEN <<>> ELSE Append(GroupFeaturesAll(rows, n - 1), GroupFeatures(rows, n))

\* transform(X): a new frame X_ with X's index; X itself is not touched
transform(X) ==
    [index |-> X.index,
     data |-> GroupFeaturesAll(PerRowAll(X.data, Len(X.data)), Len(X.data))]

-----------------------------------------------------------------------------
(* main.py: the two models, inference, get_predict *)

\* configuration.cols_model_one_way: the columns the one-way model is fitted on
cols_model_one_way ==
    {"Amount", "SegmentCount", "IsBaggage", "isRefundPermitted", "isExchangePermitted",
     "forw_hours", "forw_hours_diff_min", "forw_hours_diff_mean",
     "req_dep_hours_diff", "price_diff_min_perc", "price_diff_mean_perc", "is_direct"}

\* configuration.cols_model_two_way: the columns the round-trip model is fitted on
cols_model_two_way ==
    cols_model_one_way \cup
    {"back_hours", "total_hours", "back_hours_diff_min", "back_hours_diff_mean",
     "req_ret_hours_diff"}

\* data[cols] at one row
Project(cols, r) == [c \in cols |-> r[c]]

\* model.predict_proba(data[cols])[:, 1] at one row; a model is a table of the
\* feature rows it scores above its floor, every other row scoring the floor
predict_proba(model, x) == IF x \in DOMAIN model.table THEN model.table[x] ELSE model.floor

\* a slip: the one-way model only for a batch with no return leg at all
AllBackHoursNa(data) ==
    Cardinality({i \in 1..Len(data.data) : IsNa(data.data[i].back_hours)}) = Len(data.data)

\* data.back_hours.isna().sum() > 0
AnyBackHoursNa(data) ==
    Cardinality({i \in 1..Len(data.data) : IsNa(data.data[i].back_hours)}) > 0

\* inference(data): one predict_proba call over all rows of data; the record
\* names the model called, the columns passed and the probabilities returned
inference(data, m_one_way, m_two_way) ==
    IF AnyBackHoursNa(data)
    THEN [model |-> "model_one_way", cols |-> cols_model_one_way,
          pred_probas |-> [i \in 1..Len(data.data) |->
                              predict_proba(m_one_way, Project(cols_model_one_way, data.data[i]))]]
    ELSE [model |-> "model_two_way", cols |-> cols_model_two_way,
          pred_probas |-> [i \in 1..Len(data.data) |->
                              predict_proba(m_two_way, Project(cols_model_two_way, data.data[i]))]]

\* pd.DataFrame().from_dict(request, orient="index"): rows in the dict's key order
from_dict(req) ==
    [index |-> [i \in 1..Len(req) |-> req[i].key],
     data |-> [i \in 1..Len(req) |-> req[i].row]]

\* a slip: rank(method="min"), equal scores sharing the better rank
rank_level_min(rows, probas, i) ==
    1 + Cardinality({j \in GroupOf(rows, i) : probas[j] > probas[i]})

\* a slip: rank(method="first") with ascending left at its default
rank_level_ascending(rows, probas, i) ==
    LET G == GroupOf(rows, i)
    IN  1 + Cardinality({j \in G : probas[j] < probas[i]})
          + Cardinality({j \in G : probas[j] = probas[i] /\ j < i})

\* a slip: the groupby left out, ranks running over the whole batch
rank_level_batchwide(rows, probas, i) ==
    1 + Cardinality({j \in 1..Len(rows) : probas[j] > probas[i]})
      + Cardinality({j \in 1..Len(rows) : probas[j] = probas[i] /\ j < i})

\* batch.groupby(["RequestID"])["probas"].rank(method="first", ascending=False)
\* .astype(int) at row i: one more than the rows of the group that score higher,
\* or score the same and stand earlier
rank_level(rows, probas, i) ==
    LET G == GroupOf(rows, i)
    IN  1 + Cardinality({j \in G : probas[j] > probas[i]})
          + Cardinality({j \in G : probas[j] = probas[i] /\ j < i})

\* batch.to_dict(orient="index") after fillna / replace: key -> row, in frame order
to_dict(batch) ==
    [i \in 1..Len(batch.data) |-> [key |-> batch.index[i], row |-> batch.data[i]]]

\* lines 71-78: the batch with its probas and rank_level columns
RECURSIVE WithScores(_, _, _)
WithScores(data, probas, n) ==
    IF n = 0 THEN <<>>
    ELSE Append(WithScores(data, probas, n - 1),
                data[n] @@ [probas |-> probas[n],
                            rank_level |-> rank_level(data, probas, n)])

\* a slip: the scores attached to, and the response built from, the transformed frame
HandleReturningFeatures(req, m_one_way, m_two_way) ==
    LET batch == from_dict(req)
        tb == transform(batch)
        call == inference(tb, m_one_way, m_two_way)
    IN  [tranformed_batch |-> tb,
         call |-> [model |-> call.model, cols |-> call.cols, rows |-> Len(batch.data)],
         response |-> to_dict([index |-> tb.index,
                               data |-> WithScores(tb.data, call.pred_probas,
                                                   Len(tb.data))])]

\* get_predict(request): the frames and the call it makes, and what it returns
Handle(req, m_one_way, m_two_way) ==
    LET batch == from_dict(req)
        tb == transform(batch)
        call == inference(tb, m_one_way, m_two_way)
    IN  [tranformed_batch |-> tb,
         call |-> [model |-> call.model, cols |-> call.cols, rows |-> Len(batch.data)],
         response |-> to_dict([index |-> batch.index,
                               data |-> WithScores(batch.data, call.pred_probas,
                                                   Len(batch.data))])]

-----------------------------------------------------------------------------
(* The requests and the model instances the specifications range over *)

\* the keys of a request dict, in order
RowKey(i) == CASE i = 1 -> "a" [] i = 2 -> "b" [] i = 3 -> "c" [] i = 4 -> "d" [] OTHER -> "e"

OneWay == << <<"SVO", "CDG">> >>

RoundTrip == << <<"SVO", "CDG">>, <<"CDG", "SVO">> >>

UnknownRoundTrip == << <<"ZZZ", "CDG">>, <<"CDG", "SVO">> >>

\* one itinerary row as posted: dates are date strings (an hour) or null
MkRow(rid, route, seg, arr, ret, amount) ==
    [RequestID |-> rid,
     RequestDate |-> <<0>>,
     RequestDepartureDate |-> <<9>>,
     RequestReturnDate |-> IF ret = <<>> THEN <<>> ELSE <<99>>,
     SearchRoute |-> route,
     DepartureDate |-> <<10>>,
     ArrivalDate |-> <<arr>>,
     ReturnDepatrureDate |-> IF ret = <<>> THEN <<>> ELSE <<100>>,
     ReturnArrivalDate |-> ret,
     SegmentCount |-> seg,
     Amount |-> amount,
     IsBaggage |-> <<>>,
     isRefundPermitted |-> <<1>>,
     isExchangePermitted |-> <<>>,
     TravellerGrade |-> <<>>]

RequestIDs == {"r1", "r2"}

\* rows of the ranking specification: per RequestID a one-way offer and
\* round-trip offers (4 hours back) at two prices
RankRows ==
    {MkRow(rid, OneWay, 1, 12, <<>>, 100) : rid \in RequestIDs}
    \cup
    {MkRow(rid, RoundTrip, 2, 12, <<106>>, amount) : rid \in RequestIDs, amount \in {100, 200}}

\* rows of the per-row feature specification: every route shape with every
\* SegmentCount and every return arrival (none, 1 hour early, 0 and 5 hours back)
ShapeRows ==
    {MkRow("r1", route, seg, 12, ret, 100) :
        route \in {OneWay, RoundTrip, UnknownRoundTrip},
        seg \in {1, 2, 3},
        ret \in {<<>>, <<101>>, <<102>>, <<107>>}}

\* rows of the per-group feature specification: a round trip of 4 hours ahead,
\* 5 hours back at price 100, and the rows that differ from it in one value
GroupRows ==
    {MkRow(rid, RoundTrip, 2, arr, <<107>>, 100) : rid \in RequestIDs, arr \in {8, 12}}
    \cup
    {MkRow(rid, RoundTrip, 2, 12, ret, 100) :
        rid \in RequestIDs, ret \in {<<>>, <<101>>, <<102>>}}
    \cup
    {MkRow(rid, RoundTrip, 2, 12, <<107>>, amount) : rid \in RequestIDs, amount \in {0, 200}}

\* the request that posts the rows f[1], ..., f[n] under the keys in order
MkRequest(f, n) == [i \in 1..n |-> [key |-> RowKey(i), row |-> f[i]]]

\* the rows of req that belong to RequestID rid, submitted alone
GroupAlone(req, rid) ==
    LET InGroup(e) == e.row.RequestID = rid
    IN  SelectSeq(req, InGroup)

\* req itself and each of its groups alone
Submissions(req) ==
    {req} \cup {GroupAlone(req, req[i].row.RequestID) : i \in 1..Len(req)}

\* the feature rows a model is asked about by req or one of its groups alone
Queried(req, name, cols) ==
    UNION {LET tb == transform(from_dict(sub))
           IN  IF (name = "model_one_way") = AnyBackHoursNa(tb)
               THEN {Project(cols, tb.data[i]) : i \in 1..Len(tb.data)}
               ELSE {}
           : sub \in Submissions(req)}

\* the probabilities a model returns: a lower and a higher score, so that
\* rows tie or differ
Probas == {0, 1}

-----------------------------------------------------------------------------
(* The state machine *)

\* a request of up to max rows drawn from rows is pending
Pending(rows, max) ==
    /\ pc = "received"
    /\ \E n \in 1..max : \E f \in [1..n -> rows] : request = MkRequest(f, n)
    /\ tranformed_batch = <<>>
    /\ calls = <<>>
    /\ response = <<>>

\* the ranking specification: each model is an arbitrary function into Probas of
\* the feature rows the request, or one of its groups alone, can ask it about
Init ==
    /\ Pending(RankRows, MaxRows)
    /\ \E t \in [Queried(request, "model_one_way", cols_model_one_way) -> Probas] :
          model_one_way = [table |-> t, floor |-> 0]
    /\ \E t \in [Queried(request, "model_two_way", cols_model_two_way) -> Probas] :
          model_two_way = [table |-> t, floor |-> 0]

\* the feature specifications fix one model instance: the features do not read it
ConstantModels ==
    /\ model_one_way = [table |-> <<>>, floor |-> 0]
    /\ model_two_way = [table |-> <<>>, floor |-> 1]

InitShapes == Pending(ShapeRows, MaxShapeRows) /\ ConstantModels

InitGroups == Pending(GroupRows, MaxGroupRows) /\ ConstantModels

\* POST /predict_batch
get_predict ==
    /\ pc = "received"
    /\ LET h == Handle(request, model_one_way, model_two_way)
       IN  /\ tranformed_batch' = h.tranformed_batch
           /\ calls' = Append(calls, h.call)
           /\ response' = h.response
    /\ pc' = "responded"
    /\ UNCHANGED <<request, model_one_way, model_two_way>>

Next == get_predict

Spec == Init /\ [][Next]_vars

SpecShapes == InitShapes /\ [][Next]_vars

SpecGroups == InitGroups /\ [][Next]_vars

-----------------------------------------------------------------------------
(* Properties *)

Responded == pc = "responded"

Rows == 1..Len(request)

\* the rows that share row i's RequestID in the posted request
SameRequest(i) == {j \in Rows : request[j].row.RequestID = request[i].row.RequestID}

Proba(i) == response[i].row.probas

Rank(i) == response[i].row.rank_level

Feat(i) == tranformed_batch.data[i]

\* C1: the rank_level values of the rows of one RequestID group are exactly
\* 1..N, N the size of the group: no rank twice, none skipped, ties included
RanksArePermutation ==
    Responded =>
        /\ Len(response) = Len(request)
        /\ \A i \in Rows :
              {Rank(j) : j \in SameRequest(i)} = 1..Cardinality(SameRequest(i))

\* two rows of one group score the same, and another group is in the batch
TiedGroupRanked ==
    /\ Responded
    /\ \E i, j \in Rows : i # j /\ j \in SameRequest(i) /\ Proba(i) = Proba(j)
    /\ \E i, j \in Rows : j \notin SameRequest(i)

\* C2: within a group a strictly higher probability gets a strictly better
\* rank, and of two equal probabilities the earlier row gets the better rank
RankFollowsScoreThenPosition ==
    Responded =>
        \A i \in Rows : \A j \in SameRequest(i) :
            /\ Proba(i) > Proba(j) => Rank(i) < Rank(j)
            /\ (Proba(i) = Proba(j) /\ i < j) => Rank(i) < Rank(j)

\* a group of three where the best row comes second and the other two tie
TieAroundBestRanked ==
    /\ Responded
    /\ \E i, j, k \in Rows :
          /\ i < j /\ j < k /\ {j, k} \subseteq SameRequest(i)
          /\ Proba(j) > Proba(i) /\ Proba(i) = Proba(k)
          /\ Rank(j) = 1 /\ Rank(i) = 2 /\ Rank(k) = 3

SomeBackHoursNa == \E i \in Rows : IsNa(Feat(i).back_hours)

\* C3: one predict_proba call per batch, over all its rows: the one-way model
\* with the one-way columns if some row has missing back_hours, the round-trip
\* model with the round-trip columns if and only if none has; every row's
\* probability is the called model's
RoutingIsBatchLevel ==
    Responded =>
        /\ Len(calls) = 1
        /\ calls[1].rows = Len(request)
        /\ SomeBackHoursNa =>
              /\ calls[1].model = "model_one_way"
              /\ calls[1].cols = cols_model_one_way
              /\ \A i \in Rows :
                    Proba(i) = predict_proba(model_one_way,
                                             Project(cols_model_one_way, Feat(i)))
        /\ calls[1].model = "model_two_way" <=> ~SomeBackHoursNa
        /\ ~SomeBackHoursNa =>
              /\ calls[1].cols = cols_model_two_way
              /\ \A i \in Rows :
                    Proba(i) = predict_proba(model_two_way,
                                             Project(cols_model_two_way, Feat(i)))

\* a batch mixing a row with missing back_hours and a row with back_hours = 4.0
\* was scored by the one-way model
MixedBatchScoredOneWay ==
    /\ Responded
    /\ \E i, j \in Rows : IsNa(Feat(i).back_hours) /\ Feat(j).back_hours = Num(4)
    /\ calls[1].model = "model_one_way"

\* the ranks row i's group gets when the group is posted alone, at row i
RankAlone(i) ==
    LET alone == Handle(GroupAlone(request, request[i].row.RequestID),
                        model_one_way, model_two_way).response
    IN  alone[Cardinality({j \in SameRequest(i) : j <= i})].row.rank_level

\* row i's group has a row with missing back_hours
GroupBackHoursNa(i) == \E j \in SameRequest(i) : IsNa(Feat(j).back_hours)

DerivedColumns ==
    {"dep_forw", "arr_forw", "dep_back", "arr_back",
     "dep_forw_tz", "dep_forw_country", "arr_forw_tz", "arr_forw_country",
     "dep_back_tz", "dep_back_country", "arr_back_tz", "arr_back_country",
     "DepartureDate_conv", "ReturnDepatrureDate_conv",
     "forw_hours", "back_hours", "total_hours",
     "forw_hours_diff_min", "forw_hours_diff_mean",
     "back_hours_diff_min", "back_hours_diff_mean",
     "req_dep_hours_diff", "req_ret_hours_diff",
     "price_diff_min_perc", "price_diff_mean_perc", "is_direct"}

\* C7 as claimed: the response holds, under each row's key and in input order,
\* the row's probability, rank and every derived feature column
ResponseCarriesDerivedColumns ==
    Responded =>
        /\ Len(response) = Len(request)
        /\ \A i \in Rows :
              /\ response[i].key = request[i].key
              /\ {"probas", "rank_level"} \subseteq DOMAIN response[i].row
              /\ \A c \in DerivedColumns :
                    /\ c \in DOMAIN response[i].row
                    /\ response[i].row[c] = Feat(i)[c]

\* C7 as amended: the response holds, under each row's key and in input order,
\* the row's posted columns as posted plus its probability and rank, and none
\* of the derived feature columns, which stay in the transformed frame
ResponseCarriesScoresOnly ==
    Responded =>
        /\ Len(response) = Len(request)
        /\ \A i \in Rows :
              /\ response[i].key = request[i].key
              /\ DOMAIN response[i].row =
                    DOMAIN request[i].row \cup {"probas", "rank_level"}
              /\ \A c \in DOMAIN request[i].row : response[i].row[c] = request[i].row[c]
              /\ DerivedColumns \cap DOMAIN response[i].row = {}
              /\ DerivedColumns \subseteq DOMAIN Feat(i)

\* a batch of three rows answered: a row whose forw_hours the transform
\* computed as 4 is returned with a rank and without forw_hours
ScoredRowReturned ==
    /\ Responded
    /\ Len(request) = 3
    /\ \E i \in Rows :
          /\ Feat(i).forw_hours = Num(4)
          /\ Rank(i) = 3
          /\ "forw_hours" \notin DOMAIN response[i].row

BackColumnsNa(i) ==
    /\ IsNa(Feat(i).back_hours)
    /\ IsNa(Feat(i).back_hours_diff_min)
    /\ IsNa(Feat(i).back_hours_diff_mean)

\* C5 as claimed: every row with SegmentCount = 1 has missing back_hours,
\* back_hours_diff_min and back_hours_diff_mean, whatever its route and dates
SingleSegmentRowsHaveNoBackHours ==
    Responded =>
        \A i \in Rows : request[i].row.SegmentCount = 1 => BackColumnsNa(i)

\* C5 as amended: a row with SegmentCount = 1 has missing back_hours,
\* back_hours_diff_min and back_hours_diff_mean when its SearchRoute has no
\* return leg, whatever its return dates; when the route has a return leg
\* between known airports and the return dates are given, back_hours is the
\* number of hours of that leg, SegmentCount = 1 or not
SingleSegmentRowsFollowRoute ==
    Responded =>
        \A i \in Rows :
            request[i].row.SegmentCount = 1 =>
                /\ Feat(i).dep_back = "" => BackColumnsNa(i)
                /\ ( /\ Feat(i).dep_back # ""
                     /\ Feat(i).dep_back_tz # None /\ Feat(i).arr_back_tz # None
                     /\ request[i].row.ReturnDepatrureDate # <<>>
                     /\ request[i].row.ReturnArrivalDate # <<>> )
                   => Feat(i).back_hours =
                         Num(Feat(i).ReturnArrivalDate.h - Feat(i).ReturnDepatrureDate_conv.h)

\* a SegmentCount = 1 row without a return leg but with return dates, in a
\* group with a row whose back_hours is a number
SingleSegmentRowWithReturnDates ==
    /\ Responded
    /\ \E i, j \in Rows :
          /\ request[i].row.SegmentCount = 1
          /\ Feat(i).dep_back = ""
          /\ request[i].row.ReturnArrivalDate = <<107>>
          /\ BackColumnsNa(i)
          /\ j \in SameRequest(i) /\ Feat(j).back_hours = Num(5)

\* C6: is_direct is 1 exactly for SegmentCount = 1 with missing back_hours and
\* for SegmentCount = 2 with back_hours > 0, and 0 in every other case
DirectFlagFollowsRule ==
    Responded =>
        \A i \in Rows :
            LET seg == request[i].row.SegmentCount
                bh == Feat(i).back_hours
                positive == IsNum(bh) /\ bh.n > 0
            IN  /\ Feat(i).is_direct \in {0, 1}
                /\ Feat(i).is_direct = 1 <=>
                      ((seg = 1 /\ IsNa(bh)) \/ (seg = 2 /\ positive))
                /\ (seg = 2 /\ ~positive) => Feat(i).is_direct = 0
                /\ (seg = 1 /\ IsNum(bh)) => Feat(i).is_direct = 0
                /\ seg >= 3 => Feat(i).is_direct = 0

\* a SegmentCount = 2 row with back_hours = 0 and a SegmentCount = 1 row with
\* numeric back_hours, both flagged 0
ZeroAndNumericBackHoursFlagged ==
    /\ Responded
    /\ \E i, j \in Rows :
          /\ request[i].row.SegmentCount = 2 /\ Feat(i).back_hours = Num(0)
          /\ Feat(i).is_direct = 0
          /\ request[j].row.SegmentCount = 1 /\ Feat(j).back_hours = Num(5)
          /\ Feat(j).is_direct = 0

\* C8: a row whose return departure code is empty has a missing zone-normalized
\* return departure, missing back_hours and missing total_hours; total_hours is
\* forw_hours + back_hours when both are numbers and missing otherwise
MissingReturnLegPropagates ==
    Responded =>
        \A i \in Rows :
            LET r == Feat(i)
            IN  /\ r.dep_back = "" =>
                      /\ r.ReturnDepatrureDate_conv = NaT
                      /\ IsNa(r.back_hours)
                      /\ IsNa(r.total_hours)
                /\ IsNum(r.total_hours) <=> (IsNum(r.forw_hours) /\ IsNum(r.back_hours))
                /\ IsNum(r.total_hours) => r.total_hours.n = r.forw_hours.n + r.back_hours.n
                /\ ~IsNum(r.total_hours) => IsNa(r.total_hours)

\* a row with return dates but no return leg: forw_hours a number, total_hours
\* missing; beside it a row whose total_hours is 4 + 5
ReturnDatesWithoutReturnLeg ==
    /\ Responded
    /\ \E i, j \in Rows :
          /\ Feat(i).dep_back = "" /\ ~Feat(i).ReturnDepatrureDate.nat
          /\ Feat(i).forw_hours = Num(4) /\ IsNa(Feat(i).total_hours)
          /\ Feat(j).total_hours = Num(9)

\* the three columns the relative features are taken of, with their features
Relative ==
    {[x |-> "forw_hours", min |-> "forw_hours_diff_min", mean |-> "forw_hours_diff_mean"],
     [x |-> "back_hours", min |-> "back_hours_diff_min", mean |-> "back_hours_diff_mean"],
     [x |-> "Amount", min |-> "price_diff_min_perc", mean |-> "price_diff_mean_perc"]}

\* row i's value of column c as a float
Value(i, c) == IF c = "Amount" THEN Num(request[i].row.Amount) ELSE Feat(i)[c]

\* the rows of row i's group whose column c holds a number
Holders(i, c) == {j \in SameRequest(i) : IsNum(Value(j, c))}

RECURSIVE Total(_, _)
Total(S, c) ==
    IF S = {} THEN 0
    ELSE LET j == CHOOSE k \in S : TRUE IN Value(j, c).n + Total(S \ {j}, c)

\* the float v is the quotient a / b of two integers, b not 0
IsQuotient(v, a, b) == IsNum(v) /\ v.d > 0 /\ v.n * b = v.d * a

\* row i as transformed when its group is posted alone
FeatAlone(i) ==
    transform(from_dict(GroupAlone(request, request[i].row.RequestID)))
        .data[Cardinality({j \in SameRequest(i) : j <= i})]

\* C9: for x in forw_hours, back_hours and Amount, a row's *_diff_min is
\* (x - m) / x and its *_diff_mean is (x - a) / x, m and a the minimum and the
\* mean of x over the rows of the row's own RequestID; rows of other groups
\* change nothing; in a group of positive values the minimal row has
\* *_diff_min = 0 and every row has 0 <= *_diff_min < 1
RelativeFeaturesUseOwnGroup ==
    Responded =>
        \A i \in Rows :
            LET alone == FeatAlone(i)
            IN  \A f \in Relative :
                LET x == Value(i, f.x)
                    dmin == Feat(i)[f.min]
                    dmean == Feat(i)[f.mean]
                    H == Holders(i, f.x)
                    m == CHOOSE v \in {Value(j, f.x).n : j \in H} :
                            \A j \in H : v <= Value(j, f.x).n
                IN  /\ dmin = alone[f.min]
                    /\ dmean = alone[f.mean]
                    /\ IsNa(x) => IsNa(dmin) /\ IsNa(dmean)
                    /\ (IsNum(x) /\ x.n # 0) =>
                          /\ IsQuotient(dmin, x.n - m, x.n)
                          /\ IsQuotient(dmean,
                                        Cardinality(H) * x.n - Total(H, f.x),
                                        Cardinality(H) * x.n)
                    /\ (IsNum(x) /\ \A j \in H : Value(j, f.x).n > 0) =>
                          /\ 0 <= dmin.n /\ dmin.n < dmin.d
                          /\ x.n = m => dmin = Num(0)

\* prices 100 and 200 in one group beside a free offer in another: the dearer
\* row is 1/2 above its group's minimum and 1/4 above its group's mean
DearerRowBesideCheaperGroup ==
    /\ Responded
    /\ \E i, j, k \in Rows :
          /\ j \in SameRequest(i) /\ k \notin SameRequest(i)
          /\ request[i].row.Amount = 100 /\ request[j].row.Amount = 200
          /\ request[k].row.Amount = 0
          /\ Feat(i).price_diff_min_perc = Num(0)
          /\ Feat(j).price_diff_min_perc = [k |-> "num", n |-> 1, d |-> 2]
          /\ Feat(j).price_diff_mean_perc = [k |-> "num", n |-> 1, d |-> 4]

\* C10: the relative features of a row whose own value is 0 all take one kind
\* of sentinel, all infinite or all missing, whatever the group's minimum and mean
ZeroDivisionSentinelIsUniform ==
    Responded =>
        \E kinds \in {{"nan"}, {"inf", "ninf"}} :
            \A i \in Rows : \A f \in Relative :
                Value(i, f.x) = Num(0) =>
                    /\ Feat(i)[f.min].k \in kinds
                    /\ Feat(i)[f.mean].k \in kinds

=============================================================================
